---------------------------- MODULE Spec2Model ----------------------------
(***************************************************************************)
(* A model of winix's kill command (src/src/kill.rs): the option parser,   *)
(* the request validator, the signal mapper, the safety guard, the         *)
(* termination executor with its fallback ladder, the timeout escalation   *)
(* and the result reporter, running against an operating system whose      *)
(* processes may exit on their own at any moment.                          *)
(*                                                                         *)
(* Strings of the program are sequences of one-character strings, so that  *)
(* case folding, prefix tests and decimal parsing are computed and not     *)
(* assumed.  Option<T> is a sequence of length 0 (None) or 1 (Some).       *)
(***************************************************************************)
EXTENDS Integers, Sequences, FiniteSets, TLC

(***************************************************************************)
(* Characters and strings                                                  *)
(***************************************************************************)
Digits == <<"0", "1", "2", "3", "4", "5", "6", "7", "8", "9">>

LowerAlpha ==
    <<"a", "b", "c", "d", "e", "f", "g", "h", "i", "j", "k", "l", "m",
      "n", "o", "p", "q", "r", "s", "t", "u", "v", "w", "x", "y", "z">>

UpperAlpha ==
    <<"A", "B", "C", "D", "E", "F", "G", "H", "I", "J", "K", "L", "M",
      "N", "O", "P", "Q", "R", "S", "T", "U", "V", "W", "X", "Y", "Z">>

IndexIn(c, alphabet) ==
    IF \E i \in 1..Len(alphabet) : alphabet[i] = c
    THEN CHOOSE i \in 1..Len(alphabet) : alphabet[i] = c
    ELSE 0

is_ascii_digit(c) == IndexIn(c, Digits) # 0

all_ascii_digit(s) == \A i \in 1..Len(s) : is_ascii_digit(s[i])

to_uppercase(s) ==
    [i \in 1..Len(s) |->
        IF IndexIn(s[i], LowerAlpha) # 0
        THEN UpperAlpha[IndexIn(s[i], LowerAlpha)]
        ELSE s[i]]

to_lowercase(s) ==
    [i \in 1..Len(s) |->
        IF IndexIn(s[i], UpperAlpha) # 0
        THEN LowerAlpha[IndexIn(s[i], UpperAlpha)]
        ELSE s[i]]

starts_with(s, p) == Len(s) >= Len(p) /\ SubSeq(s, 1, Len(p)) = p

ends_with(s, p) ==
    Len(s) >= Len(p) /\ SubSeq(s, Len(s) - Len(p) + 1, Len(s)) = p

contains_char(s, c) == \E i \in 1..Len(s) : s[i] = c

\* str::splitn(2, c): the text after the first occurrence of c.
after_first(s, c) ==
    LET k == CHOOSE i \in 1..Len(s) :
                 s[i] = c /\ \A j \in 1..(i - 1) : s[j] # c
    IN  SubSeq(s, k + 1, Len(s))

(***************************************************************************)
(* Decimal parsing.  A parsed number is kept as its canonical digit string *)
(* (no sign, no leading zero), so that values beyond the checker's integer *)
(* range are still compared exactly.                                       *)
(***************************************************************************)
RECURSIVE strip_zeros(_)
strip_zeros(s) ==
    IF Len(s) > 1 /\ s[1] = "0" THEN strip_zeros(Tail(s)) ELSE s

RECURSIVE digits_leq(_, _)
\* a <= b for canonical digit strings of equal length
digits_leq(a, b) ==
    IF Len(a) = 0 THEN TRUE
    ELSE IF a[1] # b[1] THEN IndexIn(a[1], Digits) < IndexIn(b[1], Digits)
    ELSE digits_leq(Tail(a), Tail(b))

canon_leq(a, b) ==
    \/ Len(a) < Len(b)
    \/ Len(a) = Len(b) /\ digits_leq(a, b)

U32_MAX == <<"4", "2", "9", "4", "9", "6", "7", "2", "9", "5">>

U64_MAX ==
    <<"1", "8", "4", "4", "6", "7", "4", "4", "0", "7",
      "3", "7", "0", "9", "5", "5", "1", "6", "1", "5">>

I32_MAX == <<"2", "1", "4", "7", "4", "8", "3", "6", "4", "7">>

I32_MIN_MAG == <<"2", "1", "4", "7", "4", "8", "3", "6", "4", "8">>

\* str::parse::<uN>(): an optional "+", then at least one digit, in range.
parse_unsigned(s, max) ==
    LET body == IF Len(s) > 0 /\ s[1] = "+" THEN Tail(s) ELSE s
    IN  IF Len(body) = 0 \/ ~all_ascii_digit(body)
        THEN [ok |-> FALSE, val |-> <<>>]
        ELSE IF ~canon_leq(strip_zeros(body), max)
        THEN [ok |-> FALSE, val |-> <<>>]
        ELSE [ok |-> TRUE, val |-> strip_zeros(body)]

\* str::parse::<i32>(): an optional sign, then at least one digit, in range.
parse_i32(s) ==
    LET neg  == Len(s) > 0 /\ s[1] = "-"
        body == IF Len(s) > 0 /\ s[1] \in {"+", "-"} THEN Tail(s) ELSE s
        mag  == strip_zeros(body)
    IN  IF Len(body) = 0 \/ ~all_ascii_digit(body)
        THEN [ok |-> FALSE, neg |-> FALSE, mag |-> <<>>]
        ELSE IF ~canon_leq(mag, IF neg THEN I32_MIN_MAG ELSE I32_MAX)
        THEN [ok |-> FALSE, neg |-> FALSE, mag |-> <<>>]
        ELSE [ok |-> TRUE, neg |-> neg /\ mag # <<"0">>, mag |-> mag]

RECURSIVE digits_value(_)
\* the integer a canonical digit string denotes
digits_value(s) ==
    IF Len(s) = 0 THEN 0
    ELSE 10 * digits_value(SubSeq(s, 1, Len(s) - 1))
         + (IndexIn(s[Len(s)], Digits) - 1)

(***************************************************************************)
(* Signal Mapper                                                           *)
(***************************************************************************)
S_KILL == <<"K", "I", "L", "L">>
S_TERM == <<"T", "E", "R", "M">>
S_INT  == <<"I", "N", "T">>
S_QUIT == <<"Q", "U", "I", "T">>

\* Mutant: every name is a signal name.
is_valid_signal_name_any(signal) == TRUE

is_valid_signal_name(signal) ==
    to_uppercase(signal) \in
        {S_TERM, S_KILL, S_INT, S_QUIT, <<"2">>, <<"3">>, <<"9">>, <<"1", "5">>}

\* Mutant: TERM is mapped to the forced strategy.
signal_to_windows_method_term_forced(signal) ==
    LET u == to_uppercase(signal)
    IN  IF u \in {S_KILL, <<"9">>, S_TERM} THEN "ForceTerminate"
        ELSE IF u \in {<<"1", "5">>} THEN "GracefulCtrlC"
        ELSE IF u \in {S_INT, <<"2">>} THEN "GracefulCtrlC"
        ELSE IF u \in {S_QUIT, <<"3">>} THEN "GracefulCtrlBreak"
        ELSE "Unsupported"

\* "Unsupported" stands for the Err result.
signal_to_windows_method(signal) ==
    LET u == to_uppercase(signal)
    IN  IF u \in {S_KILL, <<"9">>} THEN "ForceTerminate"
        ELSE IF u \in {S_TERM, <<"1", "5">>} THEN "GracefulCtrlC"
        ELSE IF u \in {S_INT, <<"2">>} THEN "GracefulCtrlC"
        ELSE IF u \in {S_QUIT, <<"3">>} THEN "GracefulCtrlBreak"
        ELSE "Unsupported"

(***************************************************************************)
(* Option Parser                                                           *)
(***************************************************************************)
KillOptionsDefault ==
    [signal          |-> <<>>,
     signal_explicit |-> <<>>,
     print_only      |-> FALSE,
     queue_value     |-> <<>>,
     all_processes   |-> FALSE,
     timeout_ms      |-> <<>>,
     timeout_signal  |-> <<>>,
     end_of_options  |-> FALSE,
     targets         |-> <<>>]

A_DASHDASH == <<"-", "-">>
A_P        == <<"-", "p">>
A_A        == <<"-", "a">>
A_S        == <<"-", "s">>
A_Q        == <<"-", "q">>
A_TIMEOUT  == <<"-", "-", "t", "i", "m", "e", "o", "u", "t">>

ParseErr(e) == [ok |-> FALSE, err |-> e, options |-> KillOptionsDefault]

RECURSIVE parse_loop(_, _, _)
\* The while loop of parse_arguments, from index i (1-based) with options o.
parse_loop(args, i, o) ==
    IF i > Len(args) THEN [ok |-> TRUE, err |-> "", options |-> o]
    ELSE LET arg == args[i] IN
    IF o.end_of_options
    THEN parse_loop(args, i + 1, [o EXCEPT !.targets = Append(@, arg)])
    ELSE IF arg = A_DASHDASH
    THEN parse_loop(args, i + 1, [o EXCEPT !.end_of_options = TRUE])
    ELSE IF arg = A_P
    THEN parse_loop(args, i + 1, [o EXCEPT !.print_only = TRUE])
    ELSE IF arg = A_A
    THEN parse_loop(args, i + 1, [o EXCEPT !.all_processes = TRUE])
    ELSE IF arg = A_S
    THEN IF i + 1 > Len(args)
         THEN ParseErr("Option -s requires a signal argument")
         ELSE parse_loop(args, i + 2,
                         [o EXCEPT !.signal_explicit = <<args[i + 1]>>])
    ELSE IF arg = A_Q
    THEN IF i + 1 > Len(args)
         THEN ParseErr("Option -q requires a value argument")
         ELSE IF ~parse_i32(args[i + 1]).ok
         THEN ParseErr("Invalid queue value")
         ELSE parse_loop(args, i + 2,
                         [o EXCEPT !.queue_value = <<parse_i32(args[i + 1])>>])
    ELSE IF starts_with(arg, A_TIMEOUT)
    THEN IF contains_char(arg, "=")
         THEN LET ms == parse_unsigned(after_first(arg, "="), U64_MAX)
              IN  IF ~ms.ok THEN ParseErr("Invalid timeout value")
                  ELSE parse_loop(args, i + 1,
                                  [o EXCEPT !.timeout_ms = <<ms.val>>])
         ELSE IF i + 1 > Len(args)
         THEN ParseErr("Option --timeout requires milliseconds argument")
         ELSE LET ms == parse_unsigned(args[i + 1], U64_MAX)
              IN  IF ~ms.ok THEN ParseErr("Invalid timeout value")
                  ELSE IF i + 2 > Len(args)
                  THEN ParseErr("Option --timeout requires a signal argument")
                  ELSE parse_loop(args, i + 3,
                                  [o EXCEPT !.timeout_ms = <<ms.val>>,
                                            !.timeout_signal = <<args[i + 2]>>])
    ELSE IF starts_with(arg, <<"-">>) /\ Len(arg) > 1
    THEN LET signal == Tail(arg)
         IN  IF all_ascii_digit(signal) \/ is_valid_signal_name(signal)
             THEN parse_loop(args, i + 1, [o EXCEPT !.signal = <<signal>>])
             ELSE ParseErr("Invalid signal")
    ELSE parse_loop(args, i + 1, [o EXCEPT !.targets = Append(@, arg)])

\* Mutant: the "--" tokens are dropped before the loop.
parse_arguments_marker_dropped(args) ==
    parse_loop(SelectSeq(args, LAMBDA t : t # A_DASHDASH), 1,
               KillOptionsDefault)

parse_arguments(args) == parse_loop(args, 1, KillOptionsDefault)

(***************************************************************************)
(* Request Validator: "" stands for Ok(()), anything else for the Err.     *)
(***************************************************************************)
\* Mutant: the timeout signal is not mapped.
validate_options_timeout_unchecked(o) ==
    IF o.targets = <<>> /\ ~o.print_only
    THEN "No process ID or name specified"
    ELSE IF o.signal # <<>> /\ o.signal_explicit # <<>>
    THEN "Cannot specify signal with both -signal and -s options"
    ELSE IF (o.signal \o o.signal_explicit) # <<>>
            /\ signal_to_windows_method((o.signal \o o.signal_explicit)[1])
                   = "Unsupported"
    THEN "Signal is not supported on Windows"
    ELSE IF o.all_processes
            /\ \E k \in 1..Len(o.targets) : all_ascii_digit(o.targets[k])
    THEN "Cannot use -a flag with numeric PIDs"
    ELSE IF o.timeout_ms # <<>> /\ o.timeout_signal = <<>>
    THEN "--timeout option requires a signal"
    ELSE ""

\* Mutant: -a is accepted with numeric targets.
validate_options_all_unchecked(o) ==
    IF o.targets = <<>> /\ ~o.print_only
    THEN "No process ID or name specified"
    ELSE IF o.signal # <<>> /\ o.signal_explicit # <<>>
    THEN "Cannot specify signal with both -signal and -s options"
    ELSE IF (o.signal \o o.signal_explicit) # <<>>
            /\ signal_to_windows_method((o.signal \o o.signal_explicit)[1])
                   = "Unsupported"
    THEN "Signal is not supported on Windows"
    ELSE IF o.timeout_ms # <<>> /\ o.timeout_signal = <<>>
    THEN "--timeout option requires a signal"
    ELSE IF o.timeout_signal # <<>>
            /\ signal_to_windows_method(o.timeout_signal[1]) = "Unsupported"
    THEN "Signal is not supported on Windows"
    ELSE ""

\* Mutant: a timeout may come without a signal.
validate_options_timeout_optional(o) ==
    IF o.targets = <<>> /\ ~o.print_only
    THEN "No process ID or name specified"
    ELSE IF o.signal # <<>> /\ o.signal_explicit # <<>>
    THEN "Cannot specify signal with both -signal and -s options"
    ELSE IF (o.signal \o o.signal_explicit) # <<>>
            /\ signal_to_windows_method((o.signal \o o.signal_explicit)[1])
                   = "Unsupported"
    THEN "Signal is not supported on Windows"
    ELSE IF o.all_processes
            /\ \E k \in 1..Len(o.targets) : all_ascii_digit(o.targets[k])
    THEN "Cannot use -a flag with numeric PIDs"
    ELSE IF o.timeout_signal # <<>>
            /\ signal_to_windows_method(o.timeout_signal[1]) = "Unsupported"
    THEN "Signal is not supported on Windows"
    ELSE ""

\* Mutant: -signal and -s may come together.
validate_options_both_signals(o) ==
    IF o.targets = <<>> /\ ~o.print_only
    THEN "No process ID or name specified"
    ELSE IF (o.signal \o o.signal_explicit) # <<>>
            /\ signal_to_windows_method((o.signal \o o.signal_explicit)[1])
                   = "Unsupported"
    THEN "Signal is not supported on Windows"
    ELSE IF o.all_processes
            /\ \E k \in 1..Len(o.targets) : all_ascii_digit(o.targets[k])
    THEN "Cannot use -a flag with numeric PIDs"
    ELSE IF o.timeout_ms # <<>> /\ o.timeout_signal = <<>>
    THEN "--timeout option requires a signal"
    ELSE IF o.timeout_signal # <<>>
            /\ signal_to_windows_method(o.timeout_signal[1]) = "Unsupported"
    THEN "Signal is not supported on Windows"
    ELSE ""

\* Mutant: -p does not excuse an empty target list.
validate_options_targets_required(o) ==
    IF o.targets = <<>>
    THEN "No process ID or name specified"
    ELSE IF o.signal # <<>> /\ o.signal_explicit # <<>>
    THEN "Cannot specify signal with both -signal and -s options"
    ELSE IF (o.signal \o o.signal_explicit) # <<>>
            /\ signal_to_windows_method((o.signal \o o.signal_explicit)[1])
                   = "Unsupported"
    THEN "Signal is not supported on Windows"
    ELSE IF o.all_processes
            /\ \E k \in 1..Len(o.targets) : all_ascii_digit(o.targets[k])
    THEN "Cannot use -a flag with numeric PIDs"
    ELSE IF o.timeout_ms # <<>> /\ o.timeout_signal = <<>>
    THEN "--timeout option requires a signal"
    ELSE IF o.timeout_signal # <<>>
            /\ signal_to_windows_method(o.timeout_signal[1]) = "Unsupported"
    THEN "Signal is not supported on Windows"
    ELSE ""

\* Mutant: the -a rule is checked before the signal is mapped.
validate_options_all_first(o) ==
    IF o.targets = <<>> /\ ~o.print_only
    THEN "No process ID or name specified"
    ELSE IF o.signal # <<>> /\ o.signal_explicit # <<>>
    THEN "Cannot specify signal with both -signal and -s options"
    ELSE IF o.all_processes
            /\ \E k \in 1..Len(o.targets) : all_ascii_digit(o.targets[k])
    THEN "Cannot use -a flag with numeric PIDs"
    ELSE IF (o.signal \o o.signal_explicit) # <<>>
            /\ signal_to_windows_method((o.signal \o o.signal_explicit)[1])
                   = "Unsupported"
    THEN "Signal is not supported on Windows"
    ELSE IF o.timeout_ms # <<>> /\ o.timeout_signal = <<>>
    THEN "--timeout option requires a signal"
    ELSE IF o.timeout_signal # <<>>
            /\ signal_to_windows_method(o.timeout_signal[1]) = "Unsupported"
    THEN "Signal is not supported on Windows"
    ELSE ""

validate_options(o) ==
    IF o.targets = <<>> /\ ~o.print_only
    THEN "No process ID or name specified"
    ELSE IF o.signal # <<>> /\ o.signal_explicit # <<>>
    THEN "Cannot specify signal with both -signal and -s options"
    ELSE IF (o.signal \o o.signal_explicit) # <<>>
            /\ signal_to_windows_method((o.signal \o o.signal_explicit)[1])
                   = "Unsupported"
    THEN "Signal is not supported on Windows"
    ELSE IF o.all_processes
            /\ \E k \in 1..Len(o.targets) : all_ascii_digit(o.targets[k])
    THEN "Cannot use -a flag with numeric PIDs"
    ELSE IF o.timeout_ms # <<>> /\ o.timeout_signal = <<>>
    THEN "--timeout option requires a signal"
    ELSE IF o.timeout_signal # <<>>
            /\ signal_to_windows_method(o.timeout_signal[1]) = "Unsupported"
    THEN "Signal is not supported on Windows"
    ELSE ""

(***************************************************************************)
(* The operating system: a process table in snapshot order.  Pid 4 is the  *)
(* System process, GetCurrentProcessId is the shell itself; the others are *)
(* ordinary processes that may exit at any moment.                         *)
(***************************************************************************)
PROTECTED_PIDS == {0, 4, 8}

GetCurrentProcessId == 7

SnapshotOrder == <<4, 5, 6, 9, 7>>

ExeName(p) ==
    CASE p = 4 -> <<"S", "y", "s", "t", "e", "m">>
      [] p = 5 -> <<"n", "p", ".", "e", "x", "e">>
      [] p = 6 -> <<"N", "P", ".", "E", "X", "E">>
      [] p = 9 -> <<"s", "h">>
      [] p = 7 -> <<"s", "h", ".", "e", "x", "e">>

Mortal == {5, 6, 9}

DOT_EXE == <<".", "e", "x", "e">>

\* the comparison of find_processes_by_name
name_matches(exe, name) ==
    LET exe_name    == to_lowercase(exe)
        target_name == to_lowercase(name)
    IN  \/ exe_name = target_name
        \/ exe_name = target_name \o DOT_EXE
        \/ /\ ends_with(exe_name, DOT_EXE)
           /\ SubSeq(exe_name, 1, Len(exe_name) - 4) = target_name

\* the pids of a successful snapshot, in snapshot order
find_processes_by_name(name, al) ==
    SelectSeq(SnapshotOrder,
              LAMBDA p : p \in al /\ name_matches(ExeName(p), name))

\* Mutant: the existence probe always succeeds.
process_exists_always(pid, al, nq) == TRUE

\* OpenProcess(PROCESS_QUERY_INFORMATION) succeeds
process_exists(pid, al, nq) == pid \in al /\ pid \notin nq

\* Mutant: the current process is not protected.
validate_pid_safety_no_self(pid) ==
    IF pid \in PROTECTED_PIDS THEN "SystemProcess" ELSE ""

\* "" stands for Ok(()).
validate_pid_safety(pid) ==
    IF pid \in PROTECTED_PIDS THEN "SystemProcess"
    ELSE IF pid = GetCurrentProcessId THEN "CurrentProcess"
    ELSE ""

(***************************************************************************)
(* Argument lists the model runs: an option prefix followed by targets.    *)
(***************************************************************************)
MaxTargets == 2

T_5    == <<"5">>
T_7    == <<"7">>
T_0    == <<"0">>
T_BIG  == <<"9", "9", "9", "9", "9", "9", "9", "9", "9", "9", "9">>
T_NP   == <<"n", "p">>
T_SH   == <<"S", "h">>

TargetTokens == {T_5, T_7, T_0, T_BIG, T_NP, T_SH}

A_TERM  == <<"-", "T", "E", "R", "M">>
A_9     == <<"-", "9">>
A_999   == <<"-", "9", "9", "9">>
A_HUP   == <<"-", "H", "U", "P">>
W_500   == <<"5", "0", "0">>
W_KILL  == <<"k", "i", "l", "l">>
W_QUIT  == <<"Q", "u", "i", "t">>
W_HUP   == <<"H", "U", "P">>

OptPrefixes ==
    { <<>>,
      <<A_TERM>>,
      <<A_A>>,
      <<A_P>>,
      <<A_P, A_A>>,
      <<A_TIMEOUT, W_500, W_KILL, A_TERM>>,
      <<A_A, A_TIMEOUT, W_500, W_KILL, A_S, W_QUIT>>,
      <<A_HUP>>,
      <<A_S, W_HUP>>,
      <<A_999>>,
      <<A_TIMEOUT, W_500, W_HUP>>,
      <<A_S, S_TERM, A_9>> }

RECURSIVE SeqsUpTo(_, _)
SeqsUpTo(S, n) ==
    IF n = 0 THEN {<<>>}
    ELSE LET shorter == SeqsUpTo(S, n - 1)
         IN  shorter \cup {Append(q, x) : q \in shorter, x \in S}

\* a later option of the same kind replaces an earlier one
OverridePrefixes ==
    { <<A_999, A_9>>,
      <<A_S, W_HUP, A_S, W_KILL>>,
      <<A_TIMEOUT, W_500, W_HUP, A_TIMEOUT, W_500, W_KILL>> }

\* options that follow the targets
Trailers == { <<A_HUP>>, <<A_S>>, <<A_A>>, <<A_999>> }

TO_EQ_500  == <<"-", "-", "t", "i", "m", "e", "o", "u", "t", "=", "5", "0", "0">>
TO_EQ_ABC  == <<"-", "-", "t", "i", "m", "e", "o", "u", "t", "=", "a", "b", "c">>
TO_EQ_NONE == <<"-", "-", "t", "i", "m", "e", "o", "u", "t", "=">>
W_ABC      == <<"a", "b", "c">>
Q_NEG1     == <<"-", "1">>
Q_BIG      == <<"2", "1", "4", "7", "4", "8", "3", "6", "4", "8">>
Q_MIN      == <<"-", "2", "1", "4", "7", "4", "8", "3", "6", "4", "8">>
T_8        == <<"8">>

\* malformed flags, flags after "--", -q pairs, conflicting signals
FlagLists ==
    { <<T_8>>,
      <<A_A, A_DASHDASH, T_5>>,
      <<T_NP, A_A, T_5>>,
      <<TO_EQ_500, T_5>>,
      <<A_TIMEOUT, W_500>>,
      <<T_5, A_TIMEOUT, W_500>>,
      <<A_TIMEOUT, W_500, W_KILL, TO_EQ_500, T_5>>,
      <<A_9, A_S, S_TERM, T_5>>,
      <<A_9, A_S, <<"9">>, T_5>>,
      <<T_5, A_DASHDASH, A_P>>,
      <<A_DASHDASH, A_9, T_5>>,
      <<A_P, A_DASHDASH, A_A, A_DASHDASH>>,
      <<A_DASHDASH, A_S, W_HUP>>,
      <<A_DASHDASH, A_Q>>,
      <<A_TERM, A_DASHDASH, TO_EQ_ABC, T_5>>,
      <<A_S, A_DASHDASH, A_9, T_5>>,
      <<A_DASHDASH, A_TIMEOUT, A_HUP>>,
      <<T_5, A_Q>>,
      <<A_Q, W_ABC, T_5>>,
      <<A_Q, Q_BIG, T_5>>,
      <<A_TIMEOUT>>,
      <<A_TIMEOUT, W_ABC, W_KILL, T_5>>,
      <<TO_EQ_ABC, T_5>>,
      <<TO_EQ_NONE, T_5>>,
      <<T_5, A_S, A_Q>>,
      <<A_Q, T_5>>,
      <<A_Q, T_5, T_5>>,
      <<A_Q, Q_NEG1, T_5>>,
      <<T_NP, A_Q, Q_MIN>>,
      <<A_TERM, A_Q, T_5, T_5>>,
      <<A_P, A_Q, T_5, T_NP>>,
      <<A_Q, T_5, A_Q, Q_NEG1, T_NP>>,
      <<A_P, A_TIMEOUT, W_500, W_KILL, A_TERM, T_5>>,
      <<A_P, A_TIMEOUT, W_500, W_KILL, A_TERM, T_NP>> }

\* requests that break several rules of validate_options at once
MultiRuleLists ==
    { <<A_9, A_S, S_TERM>>,
      <<A_A, A_9, A_S, S_TERM>>,
      <<A_999, A_S, W_HUP, T_5>>,
      <<A_999, A_A, T_5>>,
      <<A_S, W_HUP, A_A, T_NP, T_5>>,
      <<A_A, TO_EQ_500, T_5>>,
      <<A_A, A_TIMEOUT, W_500, W_HUP, T_5>>,
      <<A_S, W_HUP, TO_EQ_500, T_5>>,
      <<A_999, A_TIMEOUT, W_500, W_KILL, T_5>>,
      <<A_TIMEOUT, W_500, W_HUP, A_9, A_S, S_TERM>>,
      <<A_P, A_999, A_A, TO_EQ_500>>,
      <<A_P, A_A, T_5, TO_EQ_500>> }

T_DASH == <<"-">>

\* a lone dash among the arguments
DashLists ==
    { <<T_DASH>>,
      <<T_DASH, T_5>>,
      <<A_P, T_DASH>>,
      <<A_TERM, T_NP, T_DASH>> }

ArgLists ==
    {o \o t : o \in OptPrefixes, t \in SeqsUpTo(TargetTokens, MaxTargets)}
    \cup {o \o <<t>> : o \in OverridePrefixes, t \in {T_5, T_NP}}
    \cup {<<t>> \o o : o \in Trailers, t \in {T_5, T_NP}}
    \cup FlagLists
    \cup MultiRuleLists
    \cup DashLists

(***************************************************************************)
(* State                                                                   *)
(***************************************************************************)
VARIABLES
    args,       \* the argument list given to execute
    pc,         \* the position of execute
    options,    \* the KillOptions built by parse_arguments
    ret,        \* the result of execute: "" while running, "Ok", or the Err
    results,    \* handle_kill's results: one [target, ok, reason] per target
    loc,        \* the local variables of the functions in progress
    alive,      \* the pids of the live processes
    noquery,    \* the pids OpenProcess refuses to open for query
    obs         \* what an observer of the run has seen

vars == <<args, pc, options, ret, results, loc, alive, noquery, obs>>

NoAttempt == [pid |-> 0, ctx |-> "none", ladder |-> <<>>]

LocInit ==
    [kill_method    |-> "",
     timeout_method |-> "",
     ti             |-> 1,
     pids           |-> <<>>,
     ni             |-> 1,
     errors         |-> 0,
     success_count  |-> 0,
     cur            |-> NoAttempt,
     target_pids    |-> <<>>,
     ci             |-> 1,
     still_alive    |-> <<>>,
     si             |-> 1,
     ei             |-> 1,
     timeout_errors |-> 0,
     timeout_success |-> 0]

ObsInit ==
    [stage      |-> "",      \* where execute failed: "usage", "parse", ...
     oscalls    |-> {},      \* the kinds of operating-system call made so far
     waited     |-> FALSE,   \* thread::sleep(timeout_ms) has returned
     last       |-> [pid |-> 0, ctx |-> "none", ladder |-> <<>>,
                     ok |-> FALSE, reason |-> ""],
     lookup     |-> [ti |-> 0, ctx |-> "none", ok |-> FALSE, pids |-> <<>>],
     tried      |-> <<>>,    \* the pids attempted for the target in progress
     sent       |-> {},      \* <<pid, phase>>: a primitive was invoked on pid
     ok_initial |-> {},      \* pids whose initial attempt returned Ok
     armed      |-> {},      \* pids attempted for a target whose result is Ok
     graceful   |-> {},      \* pids reported "terminated gracefully"
     early      |-> FALSE,   \* an escalation event before the wait ended
     printed    |-> <<>>,    \* the lines of -p
     reports    |-> <<>>]    \* the lines of report_kill_results

Init ==
    /\ args \in ArgLists
    /\ pc = "start"
    /\ options = KillOptionsDefault
    /\ ret = ""
    /\ results = <<>>
    /\ loc = LocInit
    /\ alive = {4, GetCurrentProcessId} \cup Mortal
    /\ noquery \in {{}, {6}}
    /\ obs = ObsInit

(***************************************************************************)
(* Steps of the program are computed on a record of the variables a step   *)
(* may change, and installed by Install.                                   *)
(***************************************************************************)
Here ==
    [pc |-> pc, options |-> options, ret |-> ret, results |-> results,
     loc |-> loc, obs |-> obs]

Install(n) ==
    /\ pc' = n.pc
    /\ options' = n.options
    /\ ret' = n.ret
    /\ results' = n.results
    /\ loc' = n.loc
    /\ obs' = n.obs

Phase(ctx) == IF ctx = "timeout" THEN "timeout" ELSE "initial"

\* the match on the method, of kill_process_by_pid and kill_process_with_method
Dispatch(method) ==
    CASE method = "ForceTerminate"    -> "force"
      [] method = "GracefulCtrlC"     -> "ctrl"
      [] method = "GracefulCtrlBreak" -> "ctrl"
      [] method = "WindowClose"       -> "window"

\* The attempt on pid returns okv (with the reason of its Err) to its caller:
\* the loop of handle_kill, of kill_process_by_name or of handle_timeout_kill.
ReturnAttempt(s, pid, ctx, ladder, okv, reason) ==
    LET seen == [s.obs EXCEPT
                    !.last = [pid |-> pid, ctx |-> ctx, ladder |-> ladder,
                              ok |-> okv, reason |-> reason],
                    !.tried = IF ctx = "timeout" THEN @ ELSE Append(@, pid),
                    !.ok_initial =
                        IF okv /\ ctx # "timeout" THEN @ \cup {pid} ELSE @,
                    !.armed = IF okv /\ ctx = "pid" THEN @ \cup {pid} ELSE @]
    IN  CASE ctx = "pid" ->
               [s EXCEPT
                  !.pc = "target",
                  !.results = Append(@, [target |-> s.options.targets[s.loc.ti],
                                         ok |-> okv, reason |-> reason]),
                  !.loc.ti = @ + 1,
                  !.loc.cur = NoAttempt,
                  !.obs = seen]
          [] ctx = "name" ->
               [s EXCEPT
                  !.pc = "name",
                  !.loc.ni = @ + 1,
                  !.loc.errors = IF okv THEN @ ELSE @ + 1,
                  !.loc.success_count = IF okv THEN @ + 1 ELSE @,
                  !.loc.cur = NoAttempt,
                  !.obs = seen]
          [] ctx = "timeout" ->
               [s EXCEPT
                  !.pc = "escalate",
                  !.loc.ei = @ + 1,
                  !.loc.timeout_errors = IF okv THEN @ ELSE @ + 1,
                  !.loc.timeout_success = IF okv THEN @ + 1 ELSE @,
                  !.loc.cur = NoAttempt,
                  !.obs = seen]

\* kill_process_by_pid up to its match: the safety guard, the existence probe.
kill_process_by_pid(s, pid, method, ctx) ==
    IF validate_pid_safety(pid) # ""
    THEN ReturnAttempt(s, pid, ctx, <<>>, FALSE, validate_pid_safety(pid))
    ELSE LET probed == [s EXCEPT !.obs.oscalls = @ \cup {"probe"}]
         IN  IF ~process_exists(pid, alive, noquery)
             THEN ReturnAttempt(probed, pid, ctx, <<>>, FALSE, "NoSuchProcess")
             ELSE [probed EXCEPT
                     !.pc = Dispatch(method),
                     !.loc.cur = [pid |-> pid, ctx |-> ctx, ladder |-> <<>>,
                                  method |-> method, fallback |-> FALSE]]

\* Mutant: a safety rejection in the escalation loop is returned with `?`.
escalate_process_strict(s, pid) ==
    IF validate_pid_safety(pid) # ""
    THEN [s EXCEPT !.pc = "done", !.ret = validate_pid_safety(pid),
                   !.obs.stage = "timeout"]
    ELSE [s EXCEPT
            !.pc = Dispatch(s.loc.timeout_method),
            !.loc.cur = [pid |-> pid, ctx |-> "timeout", ladder |-> <<>>,
                         method |-> s.loc.timeout_method, fallback |-> FALSE]]

\* One pass of the escalation loop of handle_timeout_kill: the safety guard,
\* then kill_process_with_method.
escalate_process(s, pid) ==
    IF validate_pid_safety(pid) # ""
    THEN ReturnAttempt(s, pid, "timeout", <<>>, FALSE, validate_pid_safety(pid))
    ELSE [s EXCEPT
            !.pc = Dispatch(s.loc.timeout_method),
            !.loc.cur = [pid |-> pid, ctx |-> "timeout", ladder |-> <<>>,
                         method |-> s.loc.timeout_method, fallback |-> FALSE]]

\* A primitive is invoked on the pid of the attempt in progress.
Invoke(s, prim, call) ==
    [s EXCEPT
       !.loc.cur.ladder = Append(@, prim),
       !.obs.oscalls = @ \cup {call},
       !.obs.sent = @ \cup {<<s.loc.cur.pid, Phase(s.loc.cur.ctx)>>},
       !.obs.early = @ \/ (s.loc.cur.ctx = "timeout" /\ ~s.obs.waited)]

\* Mutant: the Err of a termination primitive is propagated out of execute.
Return_propagated(s, okv, reason) ==
    IF okv
    THEN ReturnAttempt(s, s.loc.cur.pid, s.loc.cur.ctx, s.loc.cur.ladder,
                       okv, reason)
    ELSE [s EXCEPT !.pc = "done", !.ret = reason, !.obs.stage = "attempt"]

Return(s, okv, reason) ==
    ReturnAttempt(s, s.loc.cur.pid, s.loc.cur.ctx, s.loc.cur.ladder, okv, reason)

(***************************************************************************)
(* execute: parse_arguments, validate_options and the head of handle_kill  *)
(***************************************************************************)
Fail(s, stage, e) ==
    [s EXCEPT !.pc = "done", !.ret = e, !.obs.stage = stage]

\* Mutant: the default signal is TERM.
chosen_signal_default_term(o) ==
    IF o.signal # <<>> THEN o.signal[1]
    ELSE IF o.signal_explicit # <<>> THEN o.signal_explicit[1]
    ELSE <<"1", "5">>

\* the signal handle_kill maps: -signal, else -s, else "9"
chosen_signal(o) ==
    IF o.signal # <<>> THEN o.signal[1]
    ELSE IF o.signal_explicit # <<>> THEN o.signal_explicit[1]
    ELSE <<"9">>

\* Mutant: -p is not looked at.
handle_kill_head_print_ignored(s, o) ==
    IF signal_to_windows_method(chosen_signal(o)) = "Unsupported"
    THEN Fail(s, "signal", "Signal is not supported on Windows")
    ELSE [s EXCEPT !.pc = "target",
                   !.loc.kill_method = signal_to_windows_method(chosen_signal(o))]

\* Mutant: a queue value selects the graceful strategy.
handle_kill_head_queued(s, o) ==
    IF o.print_only THEN [s EXCEPT !.pc = "print"]
    ELSE IF signal_to_windows_method(chosen_signal(o)) = "Unsupported"
    THEN Fail(s, "signal", "Signal is not supported on Windows")
    ELSE [s EXCEPT !.pc = "target",
                   !.loc.kill_method =
                       IF o.queue_value # <<>> THEN "GracefulCtrlC"
                       ELSE signal_to_windows_method(chosen_signal(o))]

handle_kill_head(s, o) ==
    IF o.print_only THEN [s EXCEPT !.pc = "print"]
    ELSE IF signal_to_windows_method(chosen_signal(o)) = "Unsupported"
    THEN Fail(s, "signal", "Signal is not supported on Windows")
    ELSE [s EXCEPT !.pc = "target",
                   !.loc.kill_method = signal_to_windows_method(chosen_signal(o))]

\* Mutant: the result of validate_options is dropped.
execute_unvalidated(s, a) ==
    LET parsed == parse_arguments(a)
    IN  IF a = <<>> THEN Fail(s, "usage", "Usage")
        ELSE IF ~parsed.ok THEN Fail(s, "parse", parsed.err)
        ELSE handle_kill_head([s EXCEPT !.options = parsed.options],
                              parsed.options)

execute(s, a) ==
    LET parsed == parse_arguments(a)
    IN  IF a = <<>> THEN Fail(s, "usage", "Usage")
        ELSE IF ~parsed.ok THEN Fail(s, "parse", parsed.err)
        ELSE IF validate_options(parsed.options) # ""
        THEN Fail([s EXCEPT !.options = parsed.options], "validate",
                  validate_options(parsed.options))
        ELSE handle_kill_head([s EXCEPT !.options = parsed.options],
                              parsed.options)

Execute ==
    /\ pc = "start"
    /\ Install(execute(Here, args))
    /\ UNCHANGED <<args, alive, noquery>>

(***************************************************************************)
(* handle_kill: the loop over the targets                                  *)
(***************************************************************************)
\* the pid a digits-only target denotes
target_pid(target) == digits_value(parse_unsigned(target, U32_MAX).val)

\* what a snapshot taken now shows to an observer
Lookup(index, ctx, snapshot_ok, name) ==
    [ti |-> index, ctx |-> ctx, ok |-> snapshot_ok,
     pids |-> IF snapshot_ok THEN find_processes_by_name(name, alive) ELSE <<>>]

\* Mutant: without -a the last match is kept.
kept_pids_last(pids, all_processes) ==
    IF all_processes THEN pids ELSE <<pids[Len(pids)]>>

\* "let targets = if options.all_processes { pids } else { vec![pids[0]] }"
kept_pids(pids, all_processes) ==
    IF all_processes THEN pids ELSE <<pids[1]>>

\* kill_process_by_name after its snapshot: pids is the Ok value
kill_process_by_name_head(s, name, snapshot_ok, pids) ==
    LET looked == [s EXCEPT
                     !.obs.oscalls = @ \cup {"snapshot"},
                     !.obs.lookup = Lookup(s.loc.ti, "name", snapshot_ok, name)]
        err(reason) ==
            [looked EXCEPT
               !.pc = "target",
               !.results = Append(@, [target |-> name, ok |-> FALSE,
                                      reason |-> reason]),
               !.loc.ti = @ + 1]
    IN  IF ~snapshot_ok THEN err("SnapshotFailed")
        ELSE IF pids = <<>> THEN err("NoProcessesFound")
        ELSE [looked EXCEPT
                !.pc = "name",
                !.loc.pids = kept_pids(pids, s.options.all_processes),
                !.loc.ni = 1,
                !.loc.errors = 0,
                !.loc.success_count = 0]

HandleKillTarget ==
    /\ pc = "target"
    /\ loc.ti <= Len(options.targets)
    /\ LET target == options.targets[loc.ti]
           s      == [Here EXCEPT !.obs.tried = <<>>]
       IN  IF all_ascii_digit(target)
           THEN IF ~parse_unsigned(target, U32_MAX).ok
                THEN Install(Fail(s, "pid", "Invalid PID"))
                ELSE Install(kill_process_by_pid(s, target_pid(target),
                                                 loc.kill_method, "pid"))
           ELSE \E snapshot_ok \in BOOLEAN :
                  Install(kill_process_by_name_head(
                              s, target, snapshot_ok,
                              find_processes_by_name(target, alive)))
    /\ UNCHANGED <<args, alive, noquery>>

\* Mutant: a name succeeds as soon as one of its processes was killed.
kill_process_by_name_result_lenient(s) ==
    LET okv    == s.loc.success_count > 0
        reason == IF okv THEN "" ELSE "FailedToKill"
    IN  [s EXCEPT
           !.pc = "target",
           !.results = Append(@, [target |-> s.options.targets[s.loc.ti],
                                  ok |-> okv, reason |-> reason]),
           !.loc.ti = @ + 1,
           !.obs.armed = IF okv
                         THEN @ \cup {s.loc.pids[k] : k \in 1..Len(s.loc.pids)}
                         ELSE @]

\* the result of kill_process_by_name once its loop has ended
kill_process_by_name_result(s) ==
    LET okv    == s.loc.errors = 0 /\ s.loc.success_count > 0
        reason == IF s.loc.errors > 0 THEN "FailedToKill"
                  ELSE IF s.loc.success_count = 0 THEN "NoneKilled"
                  ELSE ""
    IN  [s EXCEPT
           !.pc = "target",
           !.results = Append(@, [target |-> s.options.targets[s.loc.ti],
                                  ok |-> okv, reason |-> reason]),
           !.loc.ti = @ + 1,
           !.obs.armed = IF okv
                         THEN @ \cup {s.loc.pids[k] : k \in 1..Len(s.loc.pids)}
                         ELSE @]

\* the loop of kill_process_by_name over the pids it kept
KillByNameNext ==
    /\ pc = "name"
    /\ IF loc.ni <= Len(loc.pids)
       THEN Install(kill_process_by_pid(Here, loc.pids[loc.ni],
                                        loc.kill_method, "name"))
       ELSE Install(kill_process_by_name_result(Here))
    /\ UNCHANGED <<args, alive, noquery>>

(***************************************************************************)
(* Termination Executor                                                    *)
(***************************************************************************)
CtrlOutcomes(pid) ==
    IF pid \in alive THEN {"ok", "error6", "error87", "other"}
    ELSE {"error6", "error87", "other"}

\* graceful_terminate_process: GenerateConsoleCtrlEvent and its error match
GracefulTerminate ==
    /\ pc = "ctrl"
    /\ \E out \in CtrlOutcomes(loc.cur.pid) :
         LET event == IF loc.cur.method = "GracefulCtrlBreak"
                      THEN "CtrlBreak" ELSE "CtrlC"
             s     == Invoke(Here, event, "ctrl")
         IN  CASE out = "ok"      -> Install(Return(s, TRUE, ""))
               [] out = "error6"  -> Install(Return(s, FALSE, "InvalidHandle"))
               [] out = "error87" -> Install(Return(s, FALSE, "InvalidParameter"))
               [] out = "other"   ->
                    Install([s EXCEPT !.pc = "window",
                                      !.loc.cur.fallback = TRUE])
    /\ UNCHANGED <<args, alive, noquery>>

WindowOutcomes(pid) ==
    IF pid \in alive THEN {"ok", "enum_failed", "no_windows", "not_closed"}
    ELSE {"enum_failed", "no_windows"}

\* window_close_process, called directly or by graceful_terminate_fallback
WindowClose ==
    /\ pc = "window"
    /\ \E out \in WindowOutcomes(loc.cur.pid) :
         LET s == Invoke(Here, "WindowClose", "window")
         IN  IF out = "ok" THEN Install(Return(s, TRUE, ""))
             ELSE IF loc.cur.fallback THEN Install([s EXCEPT !.pc = "force"])
             ELSE Install(Return(s, FALSE,
                     CASE out = "enum_failed" -> "EnumWindowsFailed"
                       [] out = "no_windows"  -> "NoWindows"
                       [] out = "not_closed"  -> "WindowsNotClosed"))
    /\ UNCHANGED <<args, alive, noquery>>

ForceOutcomes(pid) ==
    IF pid \in alive
    THEN {"ok", "open5", "open_other", "terminate5", "terminate_other"}
    ELSE {"open87", "open_other"}

\* force_terminate_process: OpenProcess, TerminateProcess and the error matches
ForceTerminate ==
    /\ pc = "force"
    /\ \E out \in ForceOutcomes(loc.cur.pid) :
         LET s == Invoke(Here, "Terminate", "terminate")
         IN  /\ alive' = IF out = "ok" THEN alive \ {loc.cur.pid} ELSE alive
             /\ CASE out = "ok"         -> Install(Return(s, TRUE, ""))
                  [] out = "open5"      -> Install(Return(s, FALSE, "AccessDenied"))
                  [] out = "open87"     -> Install(Return(s, FALSE, "InvalidPid"))
                  [] out = "open_other" -> Install(Return(s, FALSE, "OpenFailed"))
                  [] out = "terminate5" ->
                       Install(Return(s, FALSE, "AccessDeniedProtected"))
                  [] out = "terminate_other" ->
                       Install(Return(s, FALSE, "TerminateFailed"))
    /\ UNCHANGED <<args, noquery>>

(***************************************************************************)
(* handle_kill after the loop; handle_timeout_kill; report_kill_results    *)
(***************************************************************************)
HandleKillLoopEnd ==
    /\ pc = "target"
    /\ loc.ti > Len(options.targets)
    /\ IF options.timeout_ms = <<>>
       THEN Install([Here EXCEPT !.pc = "report"])
       ELSE IF options.timeout_signal = <<>>
       THEN Install(Fail(Here, "timeout", "Timeout signal not specified"))
       ELSE IF signal_to_windows_method(options.timeout_signal[1]) = "Unsupported"
       THEN Install(Fail(Here, "timeout", "Signal is not supported on Windows"))
       ELSE Install([Here EXCEPT
                       !.pc = "collect",
                       !.loc.timeout_method =
                           signal_to_windows_method(options.timeout_signal[1]),
                       !.loc.target_pids = <<>>,
                       !.loc.ci = 1])
    /\ UNCHANGED <<args, alive, noquery>>

\* Mutant: every match of a name is collected, with or without -a.
collected_every_match(s, target, snapshot_ok) ==
    IF all_ascii_digit(target)
    THEN IF parse_unsigned(target, U32_MAX).ok
         THEN <<target_pid(target)>> ELSE <<>>
    ELSE IF ~snapshot_ok THEN <<>>
         ELSE find_processes_by_name(target, alive)

\* the pids one successful result contributes to target_pids
collected(s, target, snapshot_ok) ==
    IF all_ascii_digit(target)
    THEN IF parse_unsigned(target, U32_MAX).ok
         THEN <<target_pid(target)>> ELSE <<>>
    ELSE LET pids == find_processes_by_name(target, alive)
         IN  IF ~snapshot_ok THEN <<>>
             ELSE IF s.options.all_processes THEN pids
             ELSE IF pids # <<>> THEN <<pids[1]>>
             ELSE <<>>

\* Mutant: the pids of failed targets are collected as well.
timeout_collect_failed_too(s, snapshot_ok) ==
    LET r     == s.results[s.loc.ci]
        isPid == all_ascii_digit(r.target)
        found == collected(s, r.target, snapshot_ok)
    IN  [s EXCEPT
           !.loc.ci = @ + 1,
           !.loc.target_pids =
               @ \o [k \in 1..Len(found) |->
                       [pid |-> found[k], ti |-> s.loc.ci]],
           !.obs.oscalls = IF isPid THEN @ ELSE @ \cup {"snapshot"},
           !.obs.lookup =
               IF isPid THEN @
               ELSE Lookup(s.loc.ci, "timeout", snapshot_ok, r.target)]

\* one pass of "Collect PIDs from successful initial kills"
timeout_collect(s, snapshot_ok) ==
    LET r     == s.results[s.loc.ci]
        isPid == all_ascii_digit(r.target)
        found == collected(s, r.target, snapshot_ok)
    IN  IF ~r.ok THEN [s EXCEPT !.loc.ci = @ + 1]
        ELSE [s EXCEPT
                !.loc.ci = @ + 1,
                !.loc.target_pids =
                    @ \o [k \in 1..Len(found) |->
                            [pid |-> found[k], ti |-> s.loc.ci]],
                !.obs.oscalls = IF isPid THEN @ ELSE @ \cup {"snapshot"},
                !.obs.lookup =
                    IF isPid THEN @
                    ELSE Lookup(s.loc.ci, "timeout", snapshot_ok, r.target)]

\* Mutant: the escalation starts without the wait.
timeout_collect_end_nowait(s) ==
    IF s.loc.target_pids = <<>> THEN [s EXCEPT !.pc = "report"]
    ELSE [s EXCEPT !.pc = "recheck", !.loc.still_alive = <<>>, !.loc.si = 1]

\* "if target_pids.is_empty() { ...; return Ok(()) }", else the wait
timeout_collect_end(s) ==
    IF s.loc.target_pids = <<>> THEN [s EXCEPT !.pc = "report"]
    ELSE [s EXCEPT !.pc = "wait"]

TimeoutCollect ==
    /\ pc = "collect"
    /\ IF loc.ci > Len(results)
       THEN Install(timeout_collect_end(Here))
       ELSE \E snapshot_ok \in BOOLEAN :
              /\ (~results[loc.ci].ok \/ all_ascii_digit(results[loc.ci].target))
                     => snapshot_ok
              /\ Install(timeout_collect(Here, snapshot_ok))
    /\ UNCHANGED <<args, alive, noquery>>

\* thread::sleep(Duration::from_millis(timeout_ms)) returns
TimeoutWait ==
    /\ pc = "wait"
    /\ Install([Here EXCEPT
                  !.pc = "recheck",
                  !.loc.still_alive = <<>>,
                  !.loc.si = 1,
                  !.obs.waited = TRUE])
    /\ UNCHANGED <<args, alive, noquery>>

\* "Check which processes are still alive", one pid per step
TimeoutRecheck ==
    /\ pc = "recheck"
    /\ IF loc.si > Len(loc.target_pids)
       THEN IF loc.still_alive = <<>>
            THEN Install([Here EXCEPT !.pc = "report"])
            ELSE Install([Here EXCEPT !.pc = "escalate", !.loc.ei = 1])
       ELSE LET t == loc.target_pids[loc.si]
                s == [Here EXCEPT !.loc.si = @ + 1,
                                  !.obs.oscalls = @ \cup {"probe"}]
            IN  IF process_exists(t.pid, alive, noquery)
                THEN Install([s EXCEPT !.loc.still_alive = Append(@, t)])
                ELSE Install([s EXCEPT
                                !.obs.graceful = @ \cup {t.pid},
                                !.obs.early = @ \/ ~obs.waited])
    /\ UNCHANGED <<args, alive, noquery>>

\* "Kill remaining processes with the timeout signal", one pid per step
TimeoutEscalate ==
    /\ pc = "escalate"
    /\ IF loc.ei > Len(loc.still_alive)
       THEN Install([Here EXCEPT !.pc = "report"])
       ELSE Install(escalate_process(Here, loc.still_alive[loc.ei].pid))
    /\ UNCHANGED <<args, alive, noquery>>

\* report_kill_results and the return of handle_kill
Report ==
    /\ pc = "report"
    /\ Install([Here EXCEPT
                  !.pc = "done",
                  !.ret = IF \E k \in 1..Len(results) : ~results[k].ok
                          THEN "Some kill operations failed" ELSE "Ok",
                  !.obs.stage = IF \E k \in 1..Len(results) : ~results[k].ok
                                THEN "report" ELSE "",
                  !.obs.reports = [k \in 1..Len(results) |->
                                     [target |-> results[k].target,
                                      ok |-> results[k].ok]]])
    /\ UNCHANGED <<args, alive, noquery>>

(***************************************************************************)
(* handle_print_only_mode                                                  *)
(***************************************************************************)
\* one pass of the loop of handle_print_only_mode
print_target(s, target, snapshot_ok, pids) ==
    LET line(v) == [ti |-> s.loc.ti, val |-> v]
        looked  == [s EXCEPT
                      !.obs.oscalls = @ \cup {"snapshot"},
                      !.obs.lookup = Lookup(s.loc.ti, "print", snapshot_ok,
                                            target)]
    IN  IF all_ascii_digit(target)
        THEN [s EXCEPT !.loc.ti = @ + 1,
                       !.obs.printed = Append(@, line(target))]
        ELSE IF ~snapshot_ok THEN Fail(looked, "print", "SnapshotFailed")
        ELSE IF pids = <<>> THEN Fail(looked, "print", "NoProcessesFound")
        ELSE [looked EXCEPT
                !.loc.ti = @ + 1,
                !.obs.printed =
                    @ \o (IF s.options.all_processes
                          THEN [k \in 1..Len(pids) |-> line(pids[k])]
                          ELSE <<line(pids[1])>>)]

PrintOnlyStep ==
    /\ pc = "print"
    /\ IF loc.ti > Len(options.targets)
       THEN Install([Here EXCEPT !.pc = "done", !.ret = "Ok"])
       ELSE \E snapshot_ok \in BOOLEAN :
              /\ all_ascii_digit(options.targets[loc.ti]) => snapshot_ok
              /\ Install(print_target(
                     Here, options.targets[loc.ti], snapshot_ok,
                     find_processes_by_name(options.targets[loc.ti], alive)))
    /\ UNCHANGED <<args, alive, noquery>>

(***************************************************************************)
(* The environment: a process exits on its own.                            *)
(***************************************************************************)
\* Before the first step of execute an exit is the same as one right after it.
ProcExit ==
    /\ pc \notin {"start", "done"}
    /\ \E p \in alive \cap Mortal : alive' = alive \ {p}
    /\ UNCHANGED <<args, pc, options, ret, results, loc, noquery, obs>>

Next ==
    \/ Execute
    \/ HandleKillTarget
    \/ KillByNameNext
    \/ GracefulTerminate
    \/ WindowClose
    \/ ForceTerminate
    \/ HandleKillLoopEnd
    \/ TimeoutCollect
    \/ TimeoutWait
    \/ TimeoutRecheck
    \/ TimeoutEscalate
    \/ Report
    \/ PrintOnlyStep
    \/ ProcExit

Spec == Init /\ [][Next]_vars

(***************************************************************************)
(* The signal mapper on its own: every letter-casing of the four names,    *)
(* the four numerals, and tokens outside the vocabulary.                   *)
(***************************************************************************)
RECURSIVE AllCasings(_)
\* the letter-casings of an upper-case word
AllCasings(w) ==
    IF w = <<>> THEN {<<>>}
    ELSE {<<c>> \o r : c \in {w[1], LowerAlpha[IndexIn(w[1], UpperAlpha)]},
                       r \in AllCasings(Tail(w))}

ForceTokens == AllCasings(S_KILL) \cup {<<"9">>}

InterruptTokens ==
    AllCasings(S_TERM) \cup AllCasings(S_INT) \cup {<<"1", "5">>, <<"2">>}

BreakTokens == AllCasings(S_QUIT) \cup {<<"3">>}

SupportedTokens == ForceTokens \cup InterruptTokens \cup BreakTokens

UnsupportedTokens ==
    AllCasings(W_HUP)
    \cup { <<>>, <<"1">>, <<"0", "9">>, <<"9", "9", "9">>, <<"1", "5", "0">>,
           <<"-", "9">>, <<"k", "i", "l">>, <<"K", "I", "L", "L", " ">>,
           <<"U", "S", "R", "1">>, <<"S", "I", "G", "K", "I", "L", "L">>,
           <<"W", "i", "n", "d", "o", "w", "C", "l", "o", "s", "e">> }

InitMapper ==
    /\ args \in {<<t>> : t \in SupportedTokens \cup UnsupportedTokens}
    /\ pc = "map"
    /\ options = KillOptionsDefault
    /\ ret = ""
    /\ results = <<>>
    /\ loc = LocInit
    /\ alive = {4, GetCurrentProcessId} \cup Mortal
    /\ noquery = {}
    /\ obs = ObsInit

MapSignal ==
    /\ pc = "map"
    /\ pc' = "mapped"
    /\ ret' = signal_to_windows_method(args[1])
    /\ UNCHANGED <<args, options, results, loc, alive, noquery, obs>>

SpecMapper == InitMapper /\ [][MapSignal]_vars

(***************************************************************************)
(* Properties                                                              *)
(***************************************************************************)
Denied == PROTECTED_PIDS \cup {GetCurrentProcessId}

\* parse_arguments or validate_options rejects the argument list
Rejected ==
    LET p == parse_arguments(args)
    IN  args = <<>> \/ ~p.ok \/ validate_options(p.options) # ""

KillMode ==
    LET p == parse_arguments(args)
    IN  /\ args # <<>> /\ p.ok /\ validate_options(p.options) = ""
        /\ ~p.options.print_only

Untouched ==
    /\ obs.oscalls = {}
    /\ obs.sent = {}
    /\ obs.printed = <<>>
    /\ results = <<>>
    /\ {4, GetCurrentProcessId} \cup Mortal = alive

(* C1: no termination primitive is ever invoked on a pid of the deny-list  *)
(* {0, 4, 8} or on the caller's own pid, in the initial attempts by pid,   *)
(* in those of a name expansion and in those of the timeout escalation: an *)
(* attempt on such a pid ends in a safety failure with no primitive tried. *)
C1_SafetyGuardBeforeEveryAttempt ==
    /\ \A e \in obs.sent : e[1] \notin Denied
    /\ pc \in {"ctrl", "window", "force"} => loc.cur.pid \notin Denied
    /\ (obs.last.ctx # "none" /\ obs.last.pid \in Denied) =>
          /\ ~obs.last.ok
          /\ obs.last.ladder = <<>>
          /\ obs.last.reason \in {"SystemProcess", "CurrentProcess"}
    /\ {4, GetCurrentProcessId} \subseteq alive

\* the escalation met the shell's own pid (a name re-resolved to it) and
\* the guard refused it
C1_Witness ==
    /\ obs.last.ctx = "timeout"
    /\ obs.last.pid = GetCurrentProcessId
    /\ obs.last.reason = "CurrentProcess"
    /\ \E e \in obs.sent : e[2] = "initial"

(* C2: in kill mode every target of a validated request is attempted       *)
(* before aggregation: when execute has returned, the loop has reached     *)
(* every target, whatever happened to the targets before it.               *)
C2_EveryTargetAttempted ==
    (pc = "done" /\ KillMode) =>
        \A j \in 1..Len(options.targets) :
            \/ j <= Len(results)
            \/ obs.stage = "pid" /\ j = Len(results) + 1

(* C3: when parse_arguments or validate_options rejects the argument list, *)
(* execute returns the error and nothing has happened to any process: no   *)
(* snapshot, no probe, no termination primitive, nothing printed.          *)
C3_RejectedWithoutSideEffect ==
    \/ /\ Untouched
       /\ pc = "done" =>
             /\ ret \notin {"", "Ok"}
             /\ obs.stage \in {"usage", "parse", "validate"}
    \/ ~Rejected

\* a rejected list whose first token is a valid target
C3_Witness ==
    /\ pc = "done"
    /\ obs.stage \in {"parse", "validate"}
    /\ Len(args) = 2 /\ args[1] = T_5
    /\ 5 \in alive

(* C4: in kill mode execute returns success if and only if every target    *)
(* produced Terminated, and every target has exactly one reported line.    *)
C4_SuccessIffAllTerminated ==
    (pc = "done" /\ KillMode) =>
        /\ (ret = "Ok") <=>
              /\ Len(results) = Len(options.targets)
              /\ \A k \in 1..Len(results) : results[k].ok
        /\ Len(obs.reports) = Len(options.targets)
        /\ \A k \in 1..Len(obs.reports) :
              obs.reports[k].target = options.targets[k]

(* C5: the signal mapper is case-insensitive: every casing of KILL and 9   *)
(* map to ForceTerminate, every casing of TERM and INT and 15 and 2 to     *)
(* GracefulCtrlC, every casing of QUIT and 3 to GracefulCtrlBreak; a       *)
(* numeral maps as its name does; WindowClose is never the result.         *)
C5_SignalMapping ==
    pc = "mapped" =>
        /\ args[1] \in ForceTokens => ret = "ForceTerminate"
        /\ args[1] \in InterruptTokens => ret = "GracefulCtrlC"
        /\ args[1] \in BreakTokens => ret = "GracefulCtrlBreak"
        /\ ret # "WindowClose"
        /\ ret \in {"ForceTerminate", "GracefulCtrlC", "GracefulCtrlBreak",
                    "Unsupported"}

C5_Witness ==
    /\ pc = "mapped"
    /\ args[1] = <<"t", "E", "r", "M">>
    /\ ret = "GracefulCtrlC"

RECURSIVE supplied_signals(_, _)
\* the tokens an argument list supplies as a signal, from index i on
supplied_signals(a, i) ==
    IF i > Len(a) \/ a[i] = A_DASHDASH THEN {}
    ELSE IF a[i] \in {A_P, A_A} THEN supplied_signals(a, i + 1)
    ELSE IF a[i] = A_S
    THEN IF i + 1 > Len(a) THEN {}
         ELSE {a[i + 1]} \cup supplied_signals(a, i + 2)
    ELSE IF a[i] = A_Q THEN supplied_signals(a, i + 2)
    ELSE IF starts_with(a[i], A_TIMEOUT)
    THEN IF contains_char(a[i], "=") THEN supplied_signals(a, i + 1)
         ELSE IF i + 2 > Len(a) THEN {}
         ELSE {a[i + 2]} \cup supplied_signals(a, i + 3)
    ELSE IF Len(a[i]) > 1 /\ a[i][1] = "-"
    THEN {Tail(a[i])} \cup supplied_signals(a, i + 1)
    ELSE supplied_signals(a, i + 1)

FailedUntouched ==
    /\ Untouched
    /\ pc = "done" =>
          /\ ret \notin {"", "Ok"}
          /\ obs.stage \in {"parse", "validate"}

(* C6 as stated: whenever the argument list supplies a signal token        *)
(* outside the vocabulary, as a bare -TOKEN, as the value of -s or as the  *)
(* --timeout signal, execute fails before any process is touched.          *)
C6_AnySuppliedUnsupportedFails ==
    \/ FailedUntouched
    \/ \A t \in supplied_signals(args, 1) : t \in SupportedTokens

\* the signal tokens the parsed request carries
carried_signals(a) ==
    LET p == parse_arguments(a)
    IN  IF ~p.ok THEN {}
        ELSE {p.options.signal[k] : k \in 1..Len(p.options.signal)}
             \cup {p.options.signal_explicit[k] :
                       k \in 1..Len(p.options.signal_explicit)}
             \cup {p.options.timeout_signal[k] :
                       k \in 1..Len(p.options.timeout_signal)}

(* C6 amended: whenever the request that parse_arguments builds carries a  *)
(* token outside the vocabulary (the last bare -N, the last -s value, the  *)
(* last --timeout signal), or a bare -NAME is no recognised name, execute  *)
(* fails before any process is resolved, probed or terminated, and the     *)
(* method in use is never one that an unsupported token was mapped to.     *)
C6_CarriedUnsupportedFails ==
    /\ \/ FailedUntouched
       \/ /\ \A t \in carried_signals(args) : t \in SupportedTokens
          /\ parse_arguments(args).err # "Invalid signal"
    /\ loc.kill_method # "" => chosen_signal(options) \in SupportedTokens
    /\ loc.timeout_method # "" => options.timeout_signal[1] \in SupportedTokens

\* --timeout 500 HUP with a live target: rejected by the validator
C6_Witness ==
    /\ pc = "done"
    /\ obs.stage = "validate"
    /\ options.timeout_signal = <<W_HUP>>
    /\ options.targets = <<T_5>>
    /\ 5 \in alive

(* C7: with --timeout, every process of a target whose initial attempt     *)
(* succeeded and which has outlived the wait has been sent the timeout     *)
(* strategy by the time execute returns.                                   *)
C7_SurvivorsReceiveTimeoutSignal ==
    (pc = "done" /\ obs.waited) =>
        \A p \in obs.armed \cap alive : <<p, "timeout">> \in obs.sent

(* C8 as stated: whenever timeout_ms is set and an initial attempt has     *)
(* succeeded, the wait is performed before execute returns, and nothing of *)
(* the escalation happens before the wait has elapsed.                     *)
C8_WaitWheneverArmed ==
    /\ (pc = "done" /\ KillMode /\ options.timeout_ms # <<>>
            /\ \E k \in 1..Len(results) : results[k].ok) => obs.waited
    /\ ~obs.early

(* C8 amended: whenever the list of pids collected from the successful     *)
(* targets is not empty, the wait is performed before execute returns; no  *)
(* timeout-strategy attempt and no "terminated gracefully" report is made  *)
(* before the wait has elapsed.                                            *)
C8_WaitWheneverCollected ==
    /\ (pc = "done" /\ loc.target_pids # <<>>) => obs.waited
    /\ pc \in {"recheck", "escalate"} => obs.waited
    /\ (obs.graceful # {} \/ \E e \in obs.sent : e[2] = "timeout") => obs.waited
    /\ ~obs.early

\* a run that waited, found one process gone and escalated on another
C8_Witness ==
    /\ pc = "done"
    /\ obs.waited
    /\ obs.graceful # {}
    /\ \E e \in obs.sent : e[2] = "timeout"

(* C9: for a graceful strategy, whenever the console control event fails,  *)
(* WindowClose is tried next, and ForceTerminate after it if that fails    *)
(* too; the outcome is that of the last step tried.                        *)
C9_FallbackLadder ==
    LET a == obs.last
    IN  (/\ a.ctx # "none"
         /\ Len(a.ladder) >= 1
         /\ a.ladder[1] \in {"CtrlC", "CtrlBreak"}
         /\ ~(a.ok /\ Len(a.ladder) = 1)) =>
            /\ Len(a.ladder) >= 2
            /\ a.ladder[2] = "WindowClose"
            /\ Len(a.ladder) = 2 => a.ok
            /\ Len(a.ladder) > 2 => a.ladder = <<a.ladder[1], "WindowClose", "Terminate">>

(* C10: for a name target whose snapshot shows k >= 1 matching processes,  *)
(* without -a exactly the first match in snapshot order is attempted (or   *)
(* printed with -p) and the others are left alone; with -a all k are, in   *)
(* snapshot order.                                                         *)
C10_FirstMatchOrAll ==
    LET l      == obs.lookup
        wanted == IF options.all_processes THEN l.pids ELSE <<l.pids[1]>>
    IN  /\ (l.ctx = "name" /\ l.pids # <<>> /\ pc = "name") =>
              /\ loc.pids = wanted
              /\ obs.tried = SubSeq(wanted, 1, loc.ni - 1)
        /\ (l.ctx = "name" /\ l.pids # <<>> /\ pc = "target"
                /\ loc.ti = l.ti + 1) =>
              obs.tried = wanted
        /\ (l.ctx = "print" /\ l.pids # <<>>) =>
              SelectSeq(obs.printed, LAMBDA x : x.ti = l.ti)
                  = [k \in 1..Len(wanted) |-> [ti |-> l.ti, val |-> wanted[k]]]

\* two processes carry the name, -a is not given, only the first was tried
C10_Witness ==
    /\ pc = "target"
    /\ ~options.all_processes
    /\ obs.lookup.ctx = "name"
    /\ obs.lookup.pids = <<5, 6>>
    /\ loc.ti = obs.lookup.ti + 1
    /\ obs.tried = <<5>>
    /\ 6 \in alive

(* C11: with -p, whatever signal, -a, -q or --timeout comes with it, no    *)
(* termination primitive is invoked, no attempt is made, neither the wait  *)
(* nor the escalation happens, and no step of execute changes the set of   *)
(* live processes: it only changes when a process exits on its own.        *)
C11_PrintOnlyInert ==
    /\ [](options.print_only =>
            /\ obs.sent = {}
            /\ obs.last.ctx = "none"
            /\ ~obs.waited
            /\ obs.graceful = {}
            /\ obs.oscalls \subseteq {"snapshot"}
            /\ results = <<>>
            /\ pc \in {"print", "done"})
    /\ [][options.print_only =>
            \/ alive' = alive
            \/ UNCHANGED <<pc, options, ret, results, loc, obs>>]_vars

\* -p together with --timeout and a signal: the pid is printed, 5 lives on
C11_Witness ==
    /\ pc = "done"
    /\ ret = "Ok"
    /\ options.print_only
    /\ options.timeout_ms # <<>>
    /\ options.signal = <<S_TERM>>
    /\ obs.printed = <<[ti |-> 1, val |-> T_5]>>
    /\ 5 \in alive

\* the pid the next step of the target loop or of the name loop attempts
NextAttempt ==
    IF /\ pc = "target"
       /\ loc.ti <= Len(options.targets)
       /\ all_ascii_digit(options.targets[loc.ti])
       /\ parse_unsigned(options.targets[loc.ti], U32_MAX).ok
    THEN <<target_pid(options.targets[loc.ti])>>
    ELSE IF pc = "name" /\ loc.ni <= Len(loc.pids)
    THEN <<loc.pids[loc.ni]>>
    ELSE <<>>

NotFoundAlways(pid) == "NoSuchProcess"

NotFoundUnlessDenied(pid) ==
    IF pid \in PROTECTED_PIDS THEN "SystemProcess" ELSE "NoSuchProcess"

\* A pid with no live process is attempted: the attempt fails with the
\* reason wanted for it, without any primitive.
DeadPidStep(guard_first) ==
    LET a == NextAttempt
        wanted(pid) == IF guard_first THEN NotFoundUnlessDenied(pid)
                       ELSE NotFoundAlways(pid)
    IN  (a # <<>> /\ a[1] \notin alive /\ alive' = alive) =>
            /\ obs'.last.pid = a[1]
            /\ ~obs'.last.ok
            /\ obs'.last.ladder = <<>>
            /\ obs'.last.reason = wanted(a[1])
            /\ obs'.sent = obs.sent
            /\ pc' = pc
            /\ pc = "target" =>
                  results' = Append(results,
                                    [target |-> options.targets[loc.ti],
                                     ok |-> FALSE, reason |-> wanted(a[1])])
            /\ pc = "name" => loc'.errors = loc.errors + 1

\* A name with no live match is attempted: the target fails, nothing is tried.
DeadNameStep ==
    (/\ pc = "target"
     /\ loc.ti <= Len(options.targets)
     /\ ~all_ascii_digit(options.targets[loc.ti])
     /\ find_processes_by_name(options.targets[loc.ti], alive) = <<>>
     /\ alive' = alive) =>
        /\ \E r \in {"NoProcessesFound", "SnapshotFailed"} :
              results' = Append(results, [target |-> options.targets[loc.ti],
                                          ok |-> FALSE, reason |-> r])
        /\ obs'.sent = obs.sent
        /\ obs'.last = obs.last
        /\ pc' = "target"

\* A name target with a failed attempt fails; a failed target fails the call.
FailurePropagates ==
    /\ (pc = "name" /\ loc.ni > Len(loc.pids) /\ loc.errors > 0
            /\ alive' = alive) =>
          /\ Len(results') = Len(results) + 1
          /\ ~results'[Len(results')].ok
    /\ (pc' = "done" /\ \E k \in 1..Len(results') : ~results'[k].ok) =>
          ret' \notin {"", "Ok"}

(* C12 as stated: an attempt on a pid that does not exist, on a name with  *)
(* no match or on a process already dead fails with NotFound, invokes no   *)
(* termination primitive, and makes the overall result a failure.          *)
C12_DeadTargetNotFound ==
    [][DeadPidStep(FALSE) /\ DeadNameStep /\ FailurePropagates]_vars

(* C12 amended: an initial attempt on a target with no live match fails    *)
(* without any termination primitive and makes the overall result a        *)
(* failure; the failure is NotFound, except that a pid of the deny-list    *)
(* {0, 4, 8} is refused by the safety guard before its existence is        *)
(* probed, so that it fails as a system process even when it does not      *)
(* exist.                                                                  *)
C12_DeadTargetFails ==
    [][DeadPidStep(TRUE) /\ DeadNameStep
          /\ FailurePropagates]_vars

\* the same pid twice: terminated by the first attempt, not found by the second
C12_Witness ==
    /\ pc = "done"
    /\ args = <<T_5, T_5>>
    /\ Len(results) = 2
    /\ results[1].ok
    /\ results[2] = [target |-> T_5, ok |-> FALSE, reason |-> "NoSuchProcess"]
    /\ obs.last.ladder = <<>>
    /\ ret \notin {"", "Ok"}

\* execute has returned the error of validate_options and nothing happened
RejectedByValidator ==
    /\ pc = "done"
    /\ obs.stage = "validate"
    /\ ret \notin {"", "Ok"}
    /\ Untouched

has_numeric_target(o) ==
    \E k \in 1..Len(o.targets) : all_ascii_digit(o.targets[k])

(* C13: when -a is set and a target is purely numeric, wherever -a stands  *)
(* and however many names come with it, validation fails and no process is *)
(* touched; when -a is set and every target is a name, the request is not  *)
(* rejected by this rule.                                                  *)
C13_AllWithNumericRejected ==
    /\ (options.all_processes /\ has_numeric_target(options)) =>
          RejectedByValidator
    /\ (options.all_processes /\ ~has_numeric_target(options)) =>
          ret # "Cannot use -a flag with numeric PIDs"

\* a name, then -a, then a pid: rejected by the rule, 5 untouched
C13_Witness ==
    /\ pc = "done"
    /\ args = <<T_NP, A_A, T_5>>
    /\ ret = "Cannot use -a flag with numeric PIDs"
    /\ obs.stage = "validate"
    /\ 5 \in alive

(* C14: a request that passes parsing and validation has timeout_ms set    *)
(* if and only if timeout_signal is set; a timeout without its signal is   *)
(* rejected with no process touched, and parse_arguments never yields a    *)
(* timeout_signal without a timeout_ms.                                    *)
C14_TimeoutIffSignal ==
    /\ (pc # "start" /\ obs.stage \notin {"usage", "parse", "validate"}) =>
          (options.timeout_ms # <<>> <=> options.timeout_signal # <<>>)
    /\ (pc # "start" /\ options.timeout_ms # <<>>
            /\ options.timeout_signal = <<>>) => RejectedByValidator
    /\ pc = "start" =>
          LET p == parse_arguments(args)
          IN  (p.ok /\ p.options.timeout_signal # <<>>) =>
                  p.options.timeout_ms # <<>>

\* --timeout=500 with no signal: rejected, 5 untouched
C14_Witness ==
    /\ pc = "done"
    /\ args = <<TO_EQ_500, T_5>>
    /\ ret = "--timeout option requires a signal"
    /\ options.timeout_ms # <<>>
    /\ 5 \in alive

(* C15: a request with both a bare signal and -s, in either order and even *)
(* when both denote the same signal, fails validation with no process      *)
(* touched; the executor never runs with both fields set.                  *)
C15_BothSignalsRejected ==
    /\ (options.signal # <<>> /\ options.signal_explicit # <<>>) =>
          RejectedByValidator
    /\ loc.kill_method # "" =>
          (options.signal = <<>> \/ options.signal_explicit = <<>>)

\* -9 then -s 9: the same signal twice, rejected
C15_Witness ==
    /\ pc = "done"
    /\ args = <<A_9, A_S, <<"9">>, T_5>>
    /\ ret = "Cannot specify signal with both -signal and -s options"
    /\ 5 \in alive

(* C19: when neither a bare signal nor -s is given, the strategy of every  *)
(* initial attempt is ForceTerminate: TerminateProcess is the only         *)
(* primitive tried, an attempt that succeeds has ended the process, and    *)
(* kill <pid> on a process that can be terminated returns success.         *)
C19_DefaultForceTerminate ==
    (options.signal = <<>> /\ options.signal_explicit = <<>>
        /\ loc.kill_method # "") =>
        /\ loc.kill_method = "ForceTerminate"
        /\ loc.cur.ctx \in {"pid", "name"} =>
              /\ pc = "force"
              /\ loc.cur.method = "ForceTerminate"
        /\ obs.last.ctx \in {"pid", "name"} =>
              /\ obs.last.ladder \in {<<>>, <<"Terminate">>}
              /\ obs.last.ok =>
                    /\ obs.last.ladder = <<"Terminate">>
                    /\ obs.last.pid \notin alive
        /\ (pc = "done" /\ Len(options.targets) = 1 /\ Len(results) = 1
                /\ results[1].ok) => ret = "Ok"

\* kill 5: terminated by TerminateProcess, success
C19_Witness ==
    /\ pc = "done"
    /\ args = <<T_5>>
    /\ ret = "Ok"
    /\ obs.last = [pid |-> 5, ctx |-> "pid", ladder |-> <<"Terminate">>,
                   ok |-> TRUE, reason |-> ""]
    /\ 5 \notin alive

(* C20: execute with no argument, or with options but no target and no -p, *)
(* returns an error and touches no process; with -p and no target the      *)
(* empty list is no reason to reject: when nothing else is wrong the       *)
(* request passes validation and execute returns success, having printed   *)
(* nothing and touched nothing.                                            *)
C20_EmptyTargetsRejectedUnlessPrint ==
    /\ (pc = "done" /\ args = <<>>) =>
          /\ obs.stage = "usage"
          /\ ret \notin {"", "Ok"}
          /\ Untouched
    /\ (pc # "start" /\ options.targets = <<>> /\ ~options.print_only) =>
          /\ pc = "done"
          /\ obs.stage \in {"usage", "parse", "validate"}
          /\ ret \notin {"", "Ok"}
          /\ Untouched
    /\ (pc # "start" /\ options.targets = <<>> /\ options.print_only) =>
          /\ obs.oscalls = {}
          /\ obs.sent = {}
          /\ obs.printed = <<>>
          /\ results = <<>>
          /\ ret # "No process ID or name specified"
          /\ validate_options([options EXCEPT !.targets = <<T_NP>>]) = "" =>
                /\ obs.stage = ""
                /\ pc = "done" => ret = "Ok"

\* kill -p: success, nothing printed
C20_Witness ==
    /\ pc = "done"
    /\ args = <<A_P>>
    /\ ret = "Ok"
    /\ obs.printed = <<>>
    /\ obs.oscalls = {}

\* a token that takes the next one or two tokens as its values
takes_values(t) ==
    IF t \in {A_S, A_Q} THEN 1
    ELSE IF starts_with(t, A_TIMEOUT) /\ ~contains_char(t, "=") THEN 2
    ELSE 0

RECURSIVE end_marker(_, _)
\* the index of the first "--" that stands where an option may stand, or 0
end_marker(a, i) ==
    IF i > Len(a) THEN 0
    ELSE IF a[i] = A_DASHDASH THEN i
    ELSE end_marker(a, i + 1 + takes_values(a[i]))

(* C16: after the first "--", every token is appended to the targets as it *)
(* is and in order, flags and further "--" included, and no option field   *)
(* changes: the request is the one parsed from the tokens before the "--", *)
(* with the tokens after it added to its targets.                          *)
C16_EndOfOptions ==
    [][LET k == end_marker(args, 1)
           q == parse_arguments(SubSeq(args, 1, k - 1))
       IN  /\ (pc = "start" /\ k > 0) =>
                IF q.ok
                THEN /\ obs'.stage # "parse"
                     /\ options' =
                          [q.options EXCEPT
                             !.end_of_options = TRUE,
                             !.targets = @ \o SubSeq(args, k + 1, Len(args))]
                ELSE obs'.stage = "parse" /\ ret' = q.err
           /\ pc # "start" => options' = options]_vars

\* -p -- -a --: the flag and the marker after "--" are targets
C16_Witness ==
    /\ pc = "print"
    /\ args = <<A_P, A_DASHDASH, A_A, A_DASHDASH>>
    /\ options.targets = <<A_A, A_DASHDASH>>
    /\ options.print_only
    /\ ~options.all_processes

RECURSIVE first_malformed(_, _)
\* a flag from index i on is malformed in one of the ways of C17
first_malformed(a, i) ==
    IF i > Len(a) \/ a[i] = A_DASHDASH THEN FALSE
    ELSE IF a[i] = A_S
    THEN i + 1 > Len(a) \/ first_malformed(a, i + 2)
    ELSE IF a[i] = A_Q
    THEN \/ i + 1 > Len(a)
         \/ ~parse_i32(a[i + 1]).ok
         \/ first_malformed(a, i + 2)
    ELSE IF starts_with(a[i], A_TIMEOUT)
    THEN IF contains_char(a[i], "=")
         THEN \/ ~parse_unsigned(after_first(a[i], "="), U64_MAX).ok
              \/ first_malformed(a, i + 1)
         ELSE \/ i + 1 > Len(a)
              \/ ~parse_unsigned(a[i + 1], U64_MAX).ok
              \/ first_malformed(a, i + 3)
    ELSE IF a[i] \notin {A_P, A_A} /\ Len(a[i]) > 1 /\ a[i][1] = "-"
    THEN \/ /\ ~all_ascii_digit(Tail(a[i]))
            /\ to_uppercase(Tail(a[i])) \notin {S_INT, S_QUIT, S_KILL, S_TERM}
         \/ first_malformed(a, i + 1)
    ELSE first_malformed(a, i + 1)

(* C17: parse_arguments returns an error for every malformed flag: -s or   *)
(* -q as the last token, -q with a value that is no 32-bit integer,        *)
(* --timeout with a missing or non-numeric millisecond value in either     *)
(* form, a bare -NAME that is neither digits nor INT, QUIT, KILL or TERM;  *)
(* execute returns that error and nothing has happened to any process.     *)
C17_MalformedFlagRejected ==
    first_malformed(args, 1) =>
        /\ pc \in {"start", "done"}
        /\ Untouched
        /\ pc = "done" =>
              /\ obs.stage = "parse"
              /\ ret \notin {"", "Ok"}

\* -q 2147483648: one more than the largest 32-bit integer
C17_Witness ==
    /\ pc = "done"
    /\ args = <<A_Q, Q_BIG, T_5>>
    /\ ret = "Invalid queue value"
    /\ 5 \in alive

RECURSIVE strip_q(_, _)
\* the argument list without its valid "-q <int>" pairs, from index i on
strip_q(a, i) ==
    IF i > Len(a) THEN <<>>
    ELSE IF a[i] = A_DASHDASH THEN SubSeq(a, i, Len(a))
    ELSE IF a[i] = A_Q
    THEN IF i + 1 <= Len(a) /\ parse_i32(a[i + 1]).ok
         THEN strip_q(a, i + 2)
         ELSE SubSeq(a, i, Len(a))
    ELSE IF i + takes_values(a[i]) > Len(a) THEN SubSeq(a, i, Len(a))
    ELSE SubSeq(a, i, i + takes_values(a[i]))
             \o strip_q(a, i + 1 + takes_values(a[i]))

\* the state in which execute is entered
Entry ==
    [pc |-> "start", options |-> KillOptionsDefault, ret |-> "",
     results |-> <<>>, loc |-> LocInit, obs |-> ObsInit]

\* The step of execute from its entry leaves the state that the twin list b
\* leads to, but for the queue value.
TwinStep(b) ==
    LET twin == execute(Entry, b)
    IN  /\ <<pc', ret', results', loc', obs'>>
              = <<twin.pc, twin.ret, twin.results, twin.loc, twin.obs>>
        /\ [options' EXCEPT !.queue_value = <<>>]
              = [twin.options EXCEPT !.queue_value = <<>>]

\* after that step the request and the strategy chosen for it stay as they are
RequestKept ==
    pc # "start" =>
        /\ options' = options
        /\ loc'.kill_method = loc.kill_method

(* C18 as stated: an argument list and the same list without its valid     *)
(* "-q <int>" pairs lead execute to the same resolutions, the same         *)
(* attempts and the same result.                                           *)
C18_QueueValueInert ==
    [][/\ pc = "start" => TwinStep(strip_q(args, 1))
       /\ RequestKept]_vars

(* C18 amended: the same, as long as something is left of the list once    *)
(* the pairs are taken out; a list made of "-q <int>" pairs only fails     *)
(* like any list without target, whatever the values, and not with the     *)
(* usage text of the empty list: both calls fail and touch nothing.        *)
C18_QueueValueInertButAlone ==
    [][/\ pc = "start" =>
             LET b == strip_q(args, 1)
             IN  IF b # <<>> \/ args = <<>> THEN TwinStep(b)
                 ELSE /\ pc' = "done"
                      /\ ret' = "No process ID or name specified"
                      /\ obs'.stage = "validate"
                      /\ execute(Entry, b).obs.stage = "usage"
                      /\ obs'.oscalls = {} /\ obs'.sent = {}
       /\ RequestKept]_vars

\* -TERM -q 5 5: the queue value is in the request, 5 got Ctrl+C as in -TERM 5
C18_Witness ==
    /\ pc = "done"
    /\ args = <<A_TERM, A_Q, T_5, T_5>>
    /\ options.queue_value # <<>>
    /\ obs.last.ladder = <<"CtrlC">>
    /\ obs.last.ok
    /\ ret = "Ok"

(***************************************************************************)
(* The rules of validate_options, one by one                               *)
(***************************************************************************)
\* rule k of validate_options objects to the request o
violates(o, k) ==
    CASE k = 1 -> o.targets = <<>> /\ ~o.print_only
      [] k = 2 -> o.signal # <<>> /\ o.signal_explicit # <<>>
      [] k = 3 -> \E g \in {IF o.signal # <<>> THEN o.signal
                            ELSE o.signal_explicit} :
                     g # <<>> /\ signal_to_windows_method(g[1]) = "Unsupported"
      [] k = 4 -> o.all_processes /\ has_numeric_target(o)
      [] k = 5 -> \/ o.timeout_ms # <<>> /\ o.timeout_signal = <<>>
                  \/ /\ o.timeout_signal # <<>>
                     /\ signal_to_windows_method(o.timeout_signal[1])
                            = "Unsupported"

\* the error rule k reports on the request o
rule_error(o, k) ==
    CASE k = 1 -> "No process ID or name specified"
      [] k = 2 -> "Cannot specify signal with both -signal and -s options"
      [] k = 3 -> "Signal is not supported on Windows"
      [] k = 4 -> "Cannot use -a flag with numeric PIDs"
      [] k = 5 -> IF o.timeout_ms # <<>> /\ o.timeout_signal = <<>>
                  THEN "--timeout option requires a signal"
                  ELSE "Signal is not supported on Windows"

violated_rules(o) == {k \in 1..5 : violates(o, k)}

(* C21: validate_options checks (a) a target unless print_only, (b) not    *)
(* both signals, (c) the chosen signal maps, (d) no numeric target with    *)
(* -a, (e) a timeout has a timeout signal that maps, in this order: the    *)
(* error execute returns for a parsed request is the one of the earliest   *)
(* rule the request violates, and a request violating none goes on to      *)
(* handle_kill as it was parsed.                                           *)
C21_FirstViolatedRuleReported ==
    [][(pc = "start" /\ obs'.stage \notin {"usage", "parse"}) =>
          LET o == options'
              V == violated_rules(o)
          IN  /\ o = parse_arguments(args).options
              /\ IF V = {}
                 THEN obs'.stage # "validate"
                 ELSE /\ pc' = "done"
                      /\ obs'.stage = "validate"
                      /\ \E k \in V :
                            /\ \A j \in V : k <= j
                            /\ ret' = rule_error(o, k)
                      /\ obs'.oscalls = {} /\ obs'.sent = {}]_vars

\* an unsupported signal, -a and a pid: the signal rule reports
C21_Witness ==
    /\ pc = "done"
    /\ args = <<A_999, A_A, T_5>>
    /\ violated_rules(options) = {3, 4}
    /\ obs.stage = "validate"
    /\ ret = "Signal is not supported on Windows"

(***************************************************************************)
(* The timeout escalation: when names are resolved, who is escalated       *)
(***************************************************************************)
\* the step is find_processes_by_name called by handle_timeout_kill
TimeoutLookupStep ==
    /\ pc = "collect"
    /\ obs'.lookup # obs.lookup
    /\ obs'.lookup.ctx = "timeout"

\* the step is the liveness recheck of one entry of target_pids
RecheckStep ==
    /\ pc = "recheck"
    /\ loc.si <= Len(loc.target_pids)
    /\ loc'.si = loc.si + 1

\* the pids the step has pushed to still_alive
pushed_alive ==
    {loc'.still_alive[k].pid :
        k \in (Len(loc.still_alive) + 1)..Len(loc'.still_alive)}

EscalationOver == pc \in {"report", "done"} /\ obs.waited

\* the timeout strategy was invoked on pid
SentTimeout(pid) == <<pid, "timeout">> \in obs.sent

(* C23: the escalation plan holds only targets whose initial attempt       *)
(* succeeded, a failed target never receives the timeout strategy, and     *)
(* each pid rechecked after the wait is in exactly one part: reported as   *)
(* terminated gracefully, or sent the timeout strategy.                    *)
C23_PlanPartition ==
    /\ \A k \in 1..Len(loc.target_pids) : results[loc.target_pids[k].ti].ok
    /\ \A k \in 1..Len(loc.still_alive) : results[loc.still_alive[k].ti].ok
    /\ EscalationOver =>
          \A k \in 1..Len(loc.target_pids) :
             LET p == loc.target_pids[k].pid
             IN  (p \in obs.graceful) # SentTimeout(p)

(* C23 amended: the escalation plan holds only entries of targets whose    *)
(* initial attempt succeeded.  Each entry rechecked after the wait goes to *)
(* exactly one part: it is reported as terminated gracefully, or it is     *)
(* kept as still alive.  Every entry kept as still alive is handed to the  *)
(* escalation, which sends it the timeout strategy unless the safety guard *)
(* rejects the pid.                                                        *)
C23_PlanPartitionOfEntries ==
    /\ [](/\ \A k \in 1..Len(loc.target_pids) :
                results[loc.target_pids[k].ti].ok
          /\ \A k \in 1..Len(loc.still_alive) :
                results[loc.still_alive[k].ti].ok
          /\ EscalationOver =>
                \A k \in 1..Len(loc.still_alive) :
                   LET p == loc.still_alive[k].pid
                   IN  SentTimeout(p) # (validate_pid_safety(p) # ""))
    /\ [][RecheckStep =>
             LET t == loc.target_pids[loc.si]
             IN  \/ /\ loc'.still_alive = Append(loc.still_alive, t)
                    /\ obs'.graceful = obs.graceful
                 \/ /\ loc'.still_alive = loc.still_alive
                    /\ obs'.graceful = obs.graceful \cup {t.pid}]_vars

\* -a with a timeout: "Sh" failed on the shell itself and is not in the
\* plan; of "np", 5 has exited during the wait and 6 is sent the strategy
C23_Witness ==
    /\ EscalationOver
    /\ options.all_processes
    /\ Len(results) = 2 /\ results[1].ok /\ ~results[2].ok
    /\ results[2].target = T_SH
    /\ loc.target_pids = <<[pid |-> 5, ti |-> 1], [pid |-> 6, ti |-> 1]>>
    /\ loc.still_alive = <<[pid |-> 6, ti |-> 1]>>
    /\ obs.graceful = {5}
    /\ SentTimeout(6) /\ ~SentTimeout(5) /\ ~SentTimeout(9)

(***************************************************************************)
(* The existence probe                                                     *)
(***************************************************************************)
\* an initial attempt has just returned without invoking any primitive,
\* past the safety guard: the existence probe has answered no
ProbeRefused ==
    /\ obs'.last # obs.last
    /\ obs'.last.ctx \in {"pid", "name"}
    /\ obs'.last.ladder = <<>>
    /\ validate_pid_safety(obs'.last.pid) = ""

(* C24: the existence probe tells a pid without live process from a live   *)
(* process that refuses to be opened: 'No such process' is reported only   *)
(* when the pid has no live process, and a live process that cannot be     *)
(* opened for query is reported with the access-denied reason.             *)
C24_ProbeTellsDeniedFromMissing ==
    [][ProbeRefused =>
          LET p == obs'.last.pid
          IN  /\ obs'.last.reason = "NoSuchProcess" => p \notin alive
              /\ (p \in alive /\ p \in noquery) =>
                     obs'.last.reason = "AccessDenied"]_vars

(***************************************************************************)
(* Print-only mode                                                         *)
(***************************************************************************)
\* handle_print_only_mode has returned
PrintModeOver ==
    /\ pc = "done"
    /\ options.print_only
    /\ obs.stage \in {"", "print"}

\* target k was reached by the loop of handle_print_only_mode
print_reached(k) ==
    \/ \E j \in 1..Len(obs.printed) : obs.printed[j].ti = k
    \/ obs.lookup.ctx = "print" /\ obs.lookup.ti >= k

(* C25: in print-only mode every target is looked up, in input order, even *)
(* when the lookup of an earlier name found no match or failed, and the    *)
(* result is success exactly when every lookup succeeded.                  *)
C25_PrintLooksUpEveryTarget ==
    PrintModeOver =>
       /\ \A k \in 1..Len(options.targets) : print_reached(k)
       /\ ret = "Ok" <=> obs.stage = ""

(***************************************************************************)
(* Tokens with a leading dash                                              *)
(***************************************************************************)
\* the token begins with "-"
leading_dash(t) == t # <<>> /\ t[1] = "-"

(* C26: before any "--", a token beginning with "-" that is not a          *)
(* recognised flag is a bare signal specifier or a parse error: the        *)
(* request of an argument list without end-of-options marker has no        *)
(* target with a leading dash, the single character "-" included.          *)
C26_NoLeadingDashTarget ==
    ~options.end_of_options =>
        \A k \in 1..Len(options.targets) : ~leading_dash(options.targets[k])

(***************************************************************************)
(* A process that exits between its resolution and the termination call    *)
(***************************************************************************)
\* a termination primitive is about to be called, in the initial pass or in
\* the escalation, on a process that has exited since it was resolved
VanishedCall ==
    /\ pc \in {"ctrl", "window", "force"}
    /\ loc.cur.pid \notin alive

(* C27: a process that exits on its own between its resolution and the     *)
(* termination call gives an ordinary failure of the attempt: the call     *)
(* returns, execute does not stop, the failure is recorded for the target  *)
(* (in the escalation: counted as a timeout error) and the loop goes on    *)
(* with the next pid or target; the result is then aggregated from the     *)
(* recorded outcomes as usual.                                             *)
C27_VanishedProcessIsOrdinaryFailure ==
    /\ [](VanishedCall =>
             ENABLED (GracefulTerminate \/ WindowClose \/ ForceTerminate))
    /\ [][/\ (VanishedCall /\ loc' # loc) =>
               /\ ret' = "" /\ pc' # "done"
               /\ alive' = alive
               /\ IF loc'.cur # NoAttempt
                  THEN /\ pc' \in {"window", "force"}
                       /\ loc'.cur.pid = loc.cur.pid
                       /\ results' = results
                  ELSE /\ obs'.last.pid = loc.cur.pid
                       /\ ~obs'.last.ok
                       /\ obs'.last.reason # ""
                       /\ CASE loc.cur.ctx = "pid" ->
                                 /\ pc' = "target"
                                 /\ loc'.ti = loc.ti + 1
                                 /\ results' =
                                      Append(results,
                                        [target |-> options.targets[loc.ti],
                                         ok |-> FALSE,
                                         reason |-> obs'.last.reason])
                            [] loc.cur.ctx = "name" ->
                                 /\ pc' = "name"
                                 /\ loc'.ni = loc.ni + 1
                                 /\ loc'.errors = loc.errors + 1
                                 /\ results' = results
                            [] loc.cur.ctx = "timeout" ->
                                 /\ pc' = "escalate"
                                 /\ loc'.ei = loc.ei + 1
                                 /\ loc'.timeout_errors = loc.timeout_errors + 1
                                 /\ results' = results
          /\ (pc = "report" /\ pc' = "done") =>
               (ret' = "Ok" <=> \A k \in 1..Len(results) : results[k].ok)]_vars

\* `kill 5 np`: 5 exits after the probe, TerminateProcess cannot open it;
\* np is then resolved to 6 and terminated, and the failure is reported
C27_Witness ==
    /\ pc = "done"
    /\ args = <<T_5, T_NP>>
    /\ results = <<[target |-> T_5, ok |-> FALSE, reason |-> "InvalidPid"],
                   [target |-> T_NP, ok |-> TRUE, reason |-> ""]>>
    /\ 6 \notin alive
    /\ ret = "Some kill operations failed"

\* the initial signal was invoked on pid
SentInitial(pid) == <<pid, "initial">> \in obs.sent

(* C28: every pid that is sent the timeout strategy was sent the initial   *)
(* signal earlier in the same invocation: the escalation never hits a      *)
(* process that the initial pass did not signal.                           *)
C28_EscalationOnlyOnSignalled ==
    \A sent \in obs.sent :
        sent[2] = "timeout" => SentInitial(sent[1])

(***************************************************************************)
(* The result of execute and the escalation                                *)
(***************************************************************************)
\* handle_timeout_kill is in progress
InTimeoutKill ==
    \/ pc \in {"collect", "wait", "recheck", "escalate"}
    \/ pc \in {"ctrl", "window", "force"} /\ loc.cur.ctx = "timeout"

(* C29: in kill mode the result of execute depends only on the outcomes of *)
(* the initial attempts: handle_timeout_kill never returns an error for a  *)
(* validated request, no step of it changes the recorded results or ends   *)
(* execute, and the result is then computed from the recorded results      *)
(* alone, whatever the escalation attempts have returned.                  *)
C29_ResultFromInitialAttemptsOnly ==
    /\ [](obs.stage # "timeout")
    /\ [][/\ InTimeoutKill =>
               /\ results' = results
               /\ ret' = "" /\ pc' # "done"
               /\ InTimeoutKill' \/ pc' = "report"
          /\ (pc = "report" /\ pc' = "done") =>
               ret' = IF \A k \in 1..Len(results) : results[k].ok
                      THEN "Ok" ELSE "Some kill operations failed"]_vars

\* every target succeeded, the escalation failed on 5: the result is Ok
C29_Witness ==
    /\ pc = "done"
    /\ ret = "Ok"
    /\ obs.waited
    /\ results = <<[target |-> T_5, ok |-> TRUE, reason |-> ""]>>
    /\ obs.last = [pid |-> 5, ctx |-> "timeout", ladder |-> <<"Terminate">>,
                   ok |-> FALSE, reason |-> "AccessDenied"]
    /\ 5 \in alive

(***************************************************************************)
(* A name expanded by -a                                                   *)
(***************************************************************************)
\* an attempt of the loop of kill_process_by_name has returned
NameAttemptReturns == loc'.ni = loc.ni + 1

\* kill_process_by_name returns the outcome of the name after its loop
NameResultStep == pc = "name" /\ pc' = "target"

(* C30: for a name with -a every pid of the expansion is attempted, in     *)
(* order, whether or not an earlier one failed, and the one outcome        *)
(* recorded for the name is a failure exactly when at least one of these   *)
(* attempts failed.                                                        *)
C30_AllExpandedAttemptedAnyFailureFails ==
    [][/\ NameAttemptReturns =>
            /\ pc' = "name"
            /\ results' = results
            /\ obs'.last.pid = loc.pids[loc.ni]
            /\ obs'.tried = Append(obs.tried, loc.pids[loc.ni])
            /\ loc'.errors = loc.errors + (IF obs'.last.ok THEN 0 ELSE 1)
       /\ NameResultStep =>
            /\ obs.tried = loc.pids
            /\ options.all_processes => loc.pids = obs.lookup.pids
            /\ Len(results') = Len(results) + 1
            /\ results'[Len(results')].target = options.targets[loc.ti]
            /\ results'[Len(results')].ok <=> loc.errors = 0
            /\ loc'.ti = loc.ti + 1]_vars

\* `kill -a np`: 5 refuses to be opened, 6 is still attempted and
\* terminated, and np is recorded as failed
C30_Witness ==
    /\ pc = "done"
    /\ args = <<A_A, T_NP>>
    /\ obs.lookup.pids = <<5, 6>>
    /\ obs.tried = <<5, 6>>
    /\ 5 \in alive /\ 6 \notin alive
    /\ results = <<[target |-> T_NP, ok |-> FALSE, reason |-> "FailedToKill"]>>
    /\ ret = "Some kill operations failed"

=============================================================================
